---- MODULE Spec2Model ----
(***************************************************************************)
(* Employee API with JWT authentication (FastAPI + MongoDB).               *)
(*                                                                         *)
(* The state is the two MongoDB collections (users, employees), the wall   *)
(* clock, the bearer tokens handed out by /auth/login, and one record per  *)
(* in-flight HTTP request.  Every handler is cut at its awaits: one action *)
(* per database round trip, so that concurrent requests interleave exactly *)
(* where the asyncio event loop lets them.                                 *)
(*                                                                         *)
(* Strings that the code matches against a regular expression or sorts     *)
(* (joining_date) are sequences of code points; all other strings are      *)
(* TLA+ strings.                                                           *)
(***************************************************************************)
EXTENDS Integers, Sequences, FiniteSets, TLC

VARIABLES users, employees, nextOid, clock, issued, req

vars == <<users, employees, nextOid, clock, issued, req>>

(***************************************************************************)
(* Bounds of the model.                                                    *)
(***************************************************************************)
\* ObjectIds generated by insert_one are 1..MaxOid; no insert is started beyond.
MaxOid == 3
\* The clock stops ticking at MaxTime (minutes).
MaxTime == 3

Reqs == {"r1", "r2"}
\* A single client, one request at a time.
Solo == {"r1"}

(***************************************************************************)
(* Code points and the joining_date strings used as inputs.                *)
(***************************************************************************)
\* "2024-01-15"
D_2024_01_15 == <<50, 48, 50, 52, 45, 48, 49, 45, 49, 53>>
\* "2023-06-30"
D_2023_06_30 == <<50, 48, 50, 51, 45, 48, 54, 45, 51, 48>>
\* "2024-13-01": the pattern's shape, not a calendar date
D_2024_13_01 == <<50, 48, 50, 52, 45, 49, 51, 45, 48, 49>>
\* "2024-1-5": not the pattern's shape
D_2024_1_5 == <<50, 48, 50, 52, 45, 49, 45, 53>>
\* "": the empty string
D_Empty == <<>>

IsDigit(c) == c \in 48..57

\* re.compile(r"^\d{4}-\d{2}-\d{2}$").match(v): ten characters of the shape
\* dddd-dd-dd ("-" is code point 45), and "$" also matches just before one
\* trailing newline (code point 10).
DateReMatch(v) ==
    /\ \/ Len(v) = 10
       \/ Len(v) = 11 /\ v[11] = 10
    /\ \A i \in {1, 2, 3, 4, 6, 7, 9, 10} : IsDigit(v[i])
    /\ v[5] = 45
    /\ v[8] = 45

\* Binary (code point) order of two strings, as the store's sort compares them.
RECURSIVE StrLess(_, _)
StrLess(a, b) ==
    IF b = <<>> THEN FALSE
    ELSE IF a = <<>> THEN TRUE
    ELSE IF Head(a) # Head(b) THEN Head(a) < Head(b)
    ELSE StrLess(Tail(a), Tail(b))

(***************************************************************************)
(* Calendar validity, used only to state the claim about invalid dates.    *)
(***************************************************************************)
Num2(v, i) == (v[i] - 48) * 10 + (v[i + 1] - 48)
Num4(v, i) == Num2(v, i) * 100 + Num2(v, i + 2)
IsLeap(y) == (y % 4 = 0 /\ y % 100 # 0) \/ y % 400 = 0
DaysIn(y, m) ==
    IF m = 2 THEN (IF IsLeap(y) THEN 29 ELSE 28)
    ELSE IF m \in {4, 6, 9, 11} THEN 30 ELSE 31
IsRealDate(v) ==
    /\ Len(v) = 10
    /\ DateReMatch(v)
    /\ Num2(v, 6) \in 1..12
    /\ Num2(v, 9) \in 1..DaysIn(Num4(v, 1), Num2(v, 6))

(***************************************************************************)
(* Password hasher and token issuer/verifier (module auth).                *)
(***************************************************************************)
\* Lifetime of an access token, in minutes.
ACCESS_TOKEN_EXPIRE_MINUTES == 2

\* get_password_hash: a one-way digest of the password and a per-call salt,
\* the salt embedded in the output.
get_password_hash(password, salt) ==
    [salt |-> salt, digest |-> <<"H", salt, password>>]

\* verify_password: recompute with the embedded salt and compare.
verify_password(password, hashed) ==
    get_password_hash(password, hashed.salt) = hashed

\* create_access_token: signed, subject and absolute expiry embedded.
create_access_token(sub, now, ttl) ==
    [sub |-> sub, exp |-> now + ttl, sig |-> "signed"]

\* The request carries no Authorization header.
NoToken == [sub |-> "", exp |-> 0, sig |-> "absent"]

\* verify: signature and expiry.  A token is accepted strictly before its
\* expiry and refused strictly after it; at the very instant of expiry the
\* outcome depends on the JWT library (atExpiry).
token_valid(token, now, atExpiry) ==
    /\ token.sig = "signed"
    /\ \/ now < token.exp
       \/ now = token.exp /\ atExpiry

verify(token, now, atExpiry) ==
    IF token_valid(token, now, atExpiry) THEN token.sub ELSE "Invalid"

NoUser == [_id |-> 0, username |-> "", email |-> "", full_name |-> "",
           hashed_password |-> [salt |-> "", digest |-> <<>>], disabled |-> TRUE]

\* users_collection.find_one({"username": name}); NoUser for None.
FindUser(name) ==
    IF \E u \in users : u.username = name
    THEN CHOOSE u \in users : u.username = name
    ELSE NoUser

\* get_current_active_user: the token's subject resolved to a stored, enabled
\* user; NoUser stands for HTTP 401.
get_current_active_user(token, now, atExpiry) ==
    IF verify(token, now, atExpiry) = "Invalid" THEN NoUser
    ELSE LET u == FindUser(verify(token, now, atExpiry)) IN
         IF u = NoUser \/ u.disabled THEN NoUser ELSE u

(***************************************************************************)
(* Requests.  A request record holds the endpoint (op), where its handler  *)
(* stands (pc), its input (arg), a local of the handler (aux: the          *)
(* inserted _id) and its response (result).  Two fields are history, read  *)
(* by no handler: authOk, whether the auth dependency resolved a user when *)
(* the request came in, and pre, what held when it came in (register: the  *)
(* username or email was taken; create, get, update, delete: the           *)
(* employee_id was stored; login: the time).                               *)
(***************************************************************************)
NoResult == [status |-> 0, body |-> <<>>]
Resp(status, body) == [status |-> status, body |-> body]

IdleReq == [op |-> "idle", pc |-> "idle", arg |-> <<>>, authOk |-> FALSE,
            pre |-> <<>>, aux |-> 0, result |-> NoResult]

\* A request slot is free before its first request and after each response.
Free(r) == req[r].pc \in {"idle", "done"}

\* Variant: DELETE /employees/{employee_id} declared without the dependency.
ProtectedButDelete == {"me", "create", "list", "avg", "search", "get", "update"}
\* The endpoints declared with Depends(get_current_active_user).
Protected == {"me", "create", "list", "avg", "search", "get", "update", "delete"}

Done(r, op, arg, ok, pre, result) ==
    req' = [req EXCEPT ![r] = [op |-> op, pc |-> "done", arg |-> arg,
                               authOk |-> ok, pre |-> pre, aux |-> 0,
                               result |-> result]]

Goto(r, pc, aux) == req' = [req EXCEPT ![r].pc = pc, ![r].aux = aux]

Finish(r, result) ==
    req' = [req EXCEPT ![r].pc = "done", ![r].aux = 0, ![r].result = result]

user_helper(doc) ==
    [username |-> doc.username, email |-> doc.email,
     full_name |-> doc.full_name, disabled |-> doc.disabled]

(***************************************************************************)
(* POST /auth/register                                                     *)
(***************************************************************************)
\* find_one({"username": ...}) / find_one({"email": ...}) found a user.
UsernameTaken(name) == \E u \in users : u.username = name
\* Variant: the email check left out.
EmailNeverTaken(email) == FALSE
EmailTaken(email) == \E u \in users : u.email = email

\* find_one({"username": ...}): the request arrives and runs to its first await.
RegisterCheckUsername(r, user) ==
    /\ Free(r)
    /\ LET held == \E u \in users : u.username = user.username
                                    \/ u.email = user.email IN
       IF UsernameTaken(user.username)
       THEN Done(r, "register", user, FALSE, held,
                 Resp(400, "Username already registered"))
       ELSE req' = [req EXCEPT ![r] = [op |-> "register", pc |-> "reg_email",
                                       arg |-> user, authOk |-> FALSE,
                                       pre |-> held, aux |-> 0,
                                       result |-> NoResult]]
    /\ UNCHANGED <<users, employees, nextOid, clock, issued>>

\* find_one({"email": ...})
RegisterCheckEmail(r) ==
    /\ req[r].pc = "reg_email"
    /\ IF EmailTaken(req[r].arg.email)
       THEN Finish(r, Resp(400, "Email already registered"))
       ELSE Goto(r, "reg_insert", 0)
    /\ UNCHANGED <<users, employees, nextOid, clock, issued>>

\* The unique indexes on username and on email refuse the insert.
UserDuplicateKey(doc) ==
    \E u \in users : u.username = doc.username \/ u.email = doc.email

\* get_password_hash, then insert_one(user_data); DuplicateKeyError is not
\* caught and surfaces as HTTP 500.
RegisterInsert(r, salt) ==
    /\ req[r].pc = "reg_insert"
    /\ nextOid <= MaxOid
    /\ LET a == req[r].arg
           doc == [_id |-> nextOid, username |-> a.username, email |-> a.email,
                   full_name |-> a.full_name,
                   hashed_password |-> get_password_hash(a.password, salt),
                   disabled |-> FALSE]
       IN IF UserDuplicateKey(doc)
          THEN /\ Finish(r, Resp(500, "DuplicateKeyError"))
               /\ UNCHANGED <<users, nextOid>>
          ELSE /\ users' = users \cup {doc}
               /\ nextOid' = nextOid + 1
               /\ Goto(r, "reg_fetch", doc._id)
    /\ UNCHANGED <<employees, clock, issued>>

\* find_one({"_id": res.inserted_id}) and user_helper
RegisterFetch(r) ==
    /\ req[r].pc = "reg_fetch"
    /\ IF \E u \in users : u._id = req[r].aux
       THEN Finish(r, Resp(201, user_helper(CHOOSE u \in users : u._id = req[r].aux)))
       ELSE Finish(r, Resp(500, "TypeError"))
    /\ UNCHANGED <<users, employees, nextOid, clock, issued>>

(***************************************************************************)
(* POST /auth/login                                                        *)
(***************************************************************************)
\* Variant: "and" for "or" in the credential test.
LoginAcceptsEither(cred) ==
    LET user == FindUser(cred.username) IN
    ~(user = NoUser /\ ~verify_password(cred.password, user.hashed_password))
\* "if not user or not verify_password(...)": the credentials are accepted
\* otherwise.
LoginAccepts(cred) ==
    LET user == FindUser(cred.username) IN
    ~(user = NoUser \/ ~verify_password(cred.password, user.hashed_password))

login_for_access_token(r, cred) ==
    /\ Free(r)
    /\ IF ~LoginAccepts(cred)
       THEN /\ Done(r, "login", cred, FALSE, clock,
                    Resp(401, "Incorrect username or password"))
            /\ UNCHANGED issued
       ELSE LET token == create_access_token(FindUser(cred.username).username,
                                             clock, ACCESS_TOKEN_EXPIRE_MINUTES)
            IN /\ Done(r, "login", cred, FALSE, clock,
                       Resp(200, [access_token |-> token, token_type |-> "bearer"]))
               /\ issued' = issued \cup {token}
    /\ UNCHANGED <<users, employees, nextOid, clock>>

(***************************************************************************)
(* GET /auth/me                                                            *)
(***************************************************************************)
\* Bearer tokens a client can present: none, one it was issued, or one it
\* made up (which cannot carry a valid signature).
Forged(names) == {[sub |-> n, exp |-> MaxTime + 1, sig |-> "forged"] : n \in names}
Presentable(names) == {NoToken} \cup issued \cup Forged(names)

read_users_me(r, token, atExpiry) ==
    /\ Free(r)
    /\ LET u == get_current_active_user(token, clock, atExpiry) IN
       IF "me" \in Protected /\ u = NoUser
       THEN Done(r, "me", token, FALSE, <<>>, Resp(401, "Unauthorized"))
       ELSE Done(r, "me", token, u # NoUser, <<>>, Resp(200, user_helper(u)))
    /\ UNCHANGED <<users, employees, nextOid, clock, issued>>

(***************************************************************************)
(* Entry of a request: the auth dependency runs (one lookup of the user),  *)
(* then the body model is validated, then the handler starts.              *)
(***************************************************************************)
Enter(r, op, arg, token, atExpiry, valid, pc, pre) ==
    LET u == get_current_active_user(token, clock, atExpiry) IN
    IF op \in Protected /\ u = NoUser
    THEN Done(r, op, arg, FALSE, pre, Resp(401, "Unauthorized"))
    ELSE IF ~valid
    THEN Done(r, op, arg, u # NoUser, pre, Resp(422, "ValidationError"))
    ELSE req' = [req EXCEPT ![r] = [op |-> op, pc |-> pc, arg |-> arg,
                                    authOk |-> u # NoUser, pre |-> pre,
                                    aux |-> 0, result |-> NoResult]]

(***************************************************************************)
(* The employees collection.                                               *)
(***************************************************************************)
\* bsonType / $type "int": a 32-bit integer.  Every integer of the model is
\* one (the salaries used are small), so the test never fails here.
IsInt32(n) == n \in Int

\* employee_schema, validationLevel strict: every required field present
\* and of its BSON type (a null is not), salary a 32-bit int, joining_date
\* matching the pattern.  nulls names the fields holding a null.
employee_schema(doc) ==
    /\ doc.nulls = {}
    /\ IsInt32(doc.salary)
    /\ DateReMatch(doc.joining_date)

\* Variant: no unique index on employee_id.
EmployeeNoIndex(doc) == FALSE
\* The unique index on employee_id refuses the insert.
EmployeeDuplicateKey(doc) == \E e \in employees : e.employee_id = doc.employee_id

HasEmployee(id) == \E e \in employees : e.employee_id = id
\* find_one({"employee_id": id}) when there is one
TheEmployee(id) == CHOOSE e \in employees : e.employee_id = id

OidStr(oid) == <<"ObjectId", oid>>

employee_helper(doc) ==
    [id |-> OidStr(doc._id), employee_id |-> doc.employee_id, name |-> doc.name,
     department |-> doc.department, salary |-> doc.salary,
     joining_date |-> doc.joining_date, skills |-> doc.skills]

\* EmployeeCreate.check_date
EmployeeCreateValid(emp) == DateReMatch(emp.joining_date)

\* EmployeeUpdate.check_date: "if v and not DATE_RE.match(v)"; a null or an
\* empty joining_date passes.
EmployeeUpdateValid(upd) ==
    \/ "joining_date" \notin upd.fields
    \/ "joining_date" \in upd.nulls
    \/ upd.vals.joining_date = <<>>
    \/ DateReMatch(upd.vals.joining_date)

(***************************************************************************)
(* POST /employees                                                         *)
(***************************************************************************)
BeginCreate(r, emp, token, atExpiry) ==
    /\ Free(r)
    /\ Enter(r, "create", emp, token, atExpiry, EmployeeCreateValid(emp),
             "create_check", HasEmployee(emp.employee_id))
    /\ UNCHANGED <<users, employees, nextOid, clock, issued>>

\* find_one({"employee_id": data["employee_id"]})
CreateCheck(r) ==
    /\ req[r].pc = "create_check"
    /\ IF HasEmployee(req[r].arg.employee_id)
       THEN Finish(r, Resp(400, "employee_id already exists"))
       ELSE Goto(r, "create_insert", 0)
    /\ UNCHANGED <<users, employees, nextOid, clock, issued>>

\* insert_one(data): the validator, then the unique index; neither error is
\* caught, each surfaces as HTTP 500.
InsertEmployee(r, doc) ==
    IF ~employee_schema(doc)
    THEN /\ Finish(r, Resp(500, "WriteError"))
         /\ UNCHANGED <<employees, nextOid>>
    ELSE IF EmployeeDuplicateKey(doc)
    THEN /\ Finish(r, Resp(500, "DuplicateKeyError"))
         /\ UNCHANGED <<employees, nextOid>>
    ELSE /\ employees' = employees \cup {doc}
         /\ nextOid' = nextOid + 1
         /\ Goto(r, "create_fetch", doc._id)

CreateInsert(r) ==
    /\ req[r].pc = "create_insert"
    /\ nextOid <= MaxOid
    /\ LET a == req[r].arg IN
       InsertEmployee(r, [_id |-> nextOid, employee_id |-> a.employee_id,
                          name |-> a.name, department |-> a.department,
                          salary |-> a.salary, joining_date |-> a.joining_date,
                          skills |-> a.skills, nulls |-> {}])
    /\ UNCHANGED <<users, clock, issued>>

\* find_one({"_id": res.inserted_id}) and employee_helper; employee_helper(None)
\* raises TypeError.
CreateFetch(r) ==
    /\ req[r].pc = "create_fetch"
    /\ IF \E e \in employees : e._id = req[r].aux
       THEN Finish(r, Resp(201, employee_helper(
                                  CHOOSE e \in employees : e._id = req[r].aux)))
       ELSE Finish(r, Resp(500, "TypeError"))
    /\ UNCHANGED <<users, employees, nextOid, clock, issued>>

(***************************************************************************)
(* GET /employees/{employee_id}                                            *)
(***************************************************************************)
BeginGet(r, id, token, atExpiry) ==
    /\ Free(r)
    /\ Enter(r, "get", id, token, atExpiry, TRUE, "get", HasEmployee(id))
    /\ UNCHANGED <<users, employees, nextOid, clock, issued>>

get_employee(r) ==
    /\ req[r].pc = "get"
    /\ IF ~HasEmployee(req[r].arg)
       THEN Finish(r, Resp(404, "Employee not found"))
       ELSE Finish(r, Resp(200, employee_helper(TheEmployee(req[r].arg))))
    /\ UNCHANGED <<users, employees, nextOid, clock, issued>>

(***************************************************************************)
(* PUT /employees/{employee_id}                                            *)
(***************************************************************************)
\* emp.dict(exclude_unset=True): the fields present in the body, nulls included.
update_data(upd) == upd.fields

\* {"$set": update_data} applied to one document.
ApplySet(doc, upd) ==
    LET set(f) == f \in upd.fields /\ f \notin upd.nulls IN
    [_id |-> doc._id,
     employee_id |-> doc.employee_id,
     name |-> IF set("name") THEN upd.vals.name ELSE doc.name,
     department |-> IF set("department") THEN upd.vals.department
                    ELSE doc.department,
     salary |-> IF set("salary") THEN upd.vals.salary ELSE doc.salary,
     joining_date |-> IF set("joining_date") THEN upd.vals.joining_date
                      ELSE doc.joining_date,
     skills |-> IF set("skills") THEN upd.vals.skills ELSE doc.skills,
     nulls |-> (doc.nulls \ upd.fields) \cup upd.nulls]

BeginUpdate(r, id, upd, token, atExpiry) ==
    /\ Free(r)
    /\ Enter(r, "update", [employee_id |-> id, upd |-> upd], token, atExpiry,
             EmployeeUpdateValid(upd), "update", HasEmployee(id))
    /\ UNCHANGED <<users, employees, nextOid, clock, issued>>

\* update_one({"employee_id": id}, {"$set": update_data}); the validator's
\* WriteError is not caught.
update_employee(r) ==
    /\ req[r].pc = "update"
    /\ LET id == req[r].arg.employee_id
           upd == req[r].arg.upd
       IN IF update_data(upd) = {}
          THEN /\ Finish(r, Resp(400, "No fields provided for update"))
               /\ UNCHANGED employees
          ELSE IF ~HasEmployee(id)
          THEN /\ Finish(r, Resp(404, "Employee not found"))
               /\ UNCHANGED employees
          ELSE LET new == ApplySet(TheEmployee(id), upd) IN
               IF ~employee_schema(new)
               THEN /\ Finish(r, Resp(500, "WriteError"))
                    /\ UNCHANGED employees
               ELSE /\ employees' = (employees \ {TheEmployee(id)}) \cup {new}
                    /\ Finish(r, Resp(200, "Employee updated"))
    /\ UNCHANGED <<users, nextOid, clock, issued>>

(***************************************************************************)
(* DELETE /employees/{employee_id}                                         *)
(***************************************************************************)
BeginDelete(r, id, token, atExpiry) ==
    /\ Free(r)
    /\ Enter(r, "delete", id, token, atExpiry, TRUE, "delete", HasEmployee(id))
    /\ UNCHANGED <<users, employees, nextOid, clock, issued>>

\* Variant: the filter left out, every document deleted.
DeleteOneAll(id) == {}
\* The collection after delete_one({"employee_id": id}) found a document.
DeleteOne(id) == employees \ {TheEmployee(id)}

\* delete_one({"employee_id": id}), then the test of deleted_count
delete_employee(r) ==
    /\ req[r].pc = "delete"
    /\ IF ~HasEmployee(req[r].arg)
       THEN /\ Finish(r, Resp(404, "Employee not found"))
            /\ UNCHANGED employees
       ELSE /\ employees' = DeleteOne(req[r].arg)
            /\ Finish(r, Resp(200, "Employee deleted"))
    /\ UNCHANGED <<users, nextOid, clock, issued>>

(***************************************************************************)
(* Queries: GET /employees, /employees/avg-salary, /employees/search        *)
(***************************************************************************)
\* The arrangements of a set of documents the store may return for
\* sort("joining_date", -1): joining_date never increases; the order among
\* equal joining_dates is the store's choice.
SortedDesc(S) ==
    {s \in [1..Cardinality(S) -> S] :
        /\ \A i, j \in 1..Cardinality(S) : i # j => s[i] # s[j]
        /\ \A i, j \in 1..Cardinality(S) :
              i < j => ~StrLess(s[i].joining_date, s[j].joining_date)}

Min(a, b) == IF a < b THEN a ELSE b
Abs(n) == IF n < 0 THEN -n ELSE n

\* query = {"department": department} if department else {}
ListQuery(department) ==
    IF department.given /\ department.value # ""
    THEN {e \in employees : e.department = department.value}
    ELSE employees

\* Variant: pages counted from 0.
ListSkipNextPage(page, size) == page * size
\* skip = (page - 1) * size
ListSkip(page, size) == (page - 1) * size

\* cursor.skip(skip).limit(size) over the sorted documents s: limit 0 is no
\* limit, a negative limit is its absolute value.
SkipLimit(s, skip, size) ==
    IF size = 0 THEN SubSeq(s, skip + 1, Len(s))
    ELSE SubSeq(s, skip + 1, Min(Len(s), skip + Abs(size)))

MapHelper(s) == [i \in 1..Len(s) |-> employee_helper(s[i])]

BeginList(r, department, page, size, token, atExpiry) ==
    /\ Free(r)
    /\ Enter(r, "list", [department |-> department, page |-> page, size |-> size],
             token, atExpiry, TRUE, "list", <<>>)
    /\ UNCHANGED <<users, employees, nextOid, clock, issued>>

\* Cursor.skip raises ValueError on a negative skip.
list_employees(r) ==
    /\ req[r].pc = "list"
    /\ LET a == req[r].arg
           skip == ListSkip(a.page, a.size)
       IN IF skip < 0
          THEN Finish(r, Resp(500, "ValueError"))
          ELSE \E s \in SortedDesc(ListQuery(a.department)) :
                  Finish(r, Resp(200, MapHelper(SkipLimit(s, skip, a.size))))
    /\ UNCHANGED <<users, employees, nextOid, clock, issued>>

BeginSearch(r, skill, token, atExpiry) ==
    /\ Free(r)
    /\ Enter(r, "search", skill, token, atExpiry, TRUE, "search", <<>>)
    /\ UNCHANGED <<users, employees, nextOid, clock, issued>>

InSeq(x, s) == \E i \in 1..Len(s) : s[i] = x

\* find({"skills": skill}).sort("joining_date", -1)
search_by_skill(r) ==
    /\ req[r].pc = "search"
    /\ \E s \in SortedDesc({e \in employees : InSeq(req[r].arg, e.skills)}) :
          Finish(r, Resp(200, MapHelper(s)))
    /\ UNCHANGED <<users, employees, nextOid, clock, issued>>

RECURSIVE SumSalary(_)
SumSalary(S) ==
    IF S = {} THEN 0
    ELSE LET e == CHOOSE x \in S : TRUE IN e.salary + SumSalary(S \ {e})

\* Variant: the mean truncated instead of rounded.
RoundDown(sum, n) == sum \div n
\* {"$round": [x, 0]} of x = sum / n: to the nearest integer, a tie to the
\* even one.
RoundHalfEven(sum, n) ==
    LET q == sum \div n
        rem == sum % n
    IN IF 2 * rem < n THEN q
       ELSE IF 2 * rem > n THEN q + 1
       ELSE IF q % 2 = 0 THEN q ELSE q + 1

\* $match: salary exists and is a 32-bit int, department exists.
AvgMatch == {e \in employees : /\ "salary" \notin e.nulls
                               /\ IsInt32(e.salary)
                               /\ "department" \notin e.nulls}

\* $group by department with $avg, $project with $round.
AvgPipeline ==
    {[department |-> d,
      avg_salary |-> LET G == {e \in AvgMatch : e.department = d}
                     IN RoundHalfEven(SumSalary(G), Cardinality(G))]
     : d \in {e.department : e \in AvgMatch}}

BeginAvg(r, token, atExpiry) ==
    /\ Free(r)
    /\ Enter(r, "avg", <<>>, token, atExpiry, TRUE, "avg", <<>>)
    /\ UNCHANGED <<users, employees, nextOid, clock, issued>>

avg_salary_by_department(r) ==
    /\ req[r].pc = "avg"
    /\ Finish(r, Resp(200, [data |-> AvgPipeline]))
    /\ UNCHANGED <<users, employees, nextOid, clock, issued>>

(***************************************************************************)
(* Environment: time passes; an administrator flips a user's disabled flag *)
(* directly in the store.                                                  *)
(***************************************************************************)
Tick ==
    /\ clock < MaxTime
    /\ clock' = clock + 1
    /\ UNCHANGED <<users, employees, nextOid, issued, req>>

SetDisabled(name, flag) ==
    /\ \E u \in users : u.username = name /\ u.disabled # flag
    /\ users' = {IF u.username = name THEN [u EXCEPT !.disabled = flag] ELSE u
                 : u \in users}
    /\ UNCHANGED <<employees, nextOid, clock, issued, req>>

(***************************************************************************)
(* Initial state: startup_event has built the unique indexes and installed *)
(* the validators on two empty collections.                                *)
(***************************************************************************)
Init ==
    /\ users = {}
    /\ employees = {}
    /\ nextOid = 1
    /\ clock = 0
    /\ issued = {}
    /\ req = [r \in Reqs |-> IdleReq]

(***************************************************************************)
(* Registration on its own: concurrent POST /auth/register requests.       *)
(***************************************************************************)
Usernames == {"alice", "bob"}
Emails == {"a@x", "b@x"}
Passwords == {"pw1", "pw2"}
Salts == {"s1", "s2"}
UserCreates ==
    [username : Usernames, email : Emails, full_name : {"N"}, password : {"pw1"}]

NextRegister ==
    \/ \E r \in Reqs, user \in UserCreates : RegisterCheckUsername(r, user)
    \/ \E r \in Reqs : RegisterCheckEmail(r)
    \/ \E r \in Reqs, salt \in Salts : RegisterInsert(r, salt)
    \/ \E r \in Reqs : RegisterFetch(r)

SpecRegister == Init /\ [][NextRegister]_vars

(***************************************************************************)
(* Sessions: register, login, token presentation, passing time.            *)
(***************************************************************************)
SessionCreates ==
    {[username |-> "alice", email |-> "a@x", full_name |-> "N", password |-> "pw1"],
     [username |-> "bob", email |-> "b@x", full_name |-> "N", password |-> "pw2"]}
UserLogins == [username : Usernames \cup {"carol"}, password : Passwords]

NextSession ==
    \/ \E r \in Solo, user \in SessionCreates : RegisterCheckUsername(r, user)
    \/ \E r \in Solo : RegisterCheckEmail(r)
    \/ \E r \in Solo : RegisterInsert(r, "s1")
    \/ \E r \in Solo : RegisterFetch(r)
    \/ \E r \in Solo, cred \in UserLogins : login_for_access_token(r, cred)
    \/ \E r \in Solo, token \in Presentable(Usernames), atExpiry \in BOOLEAN :
          read_users_me(r, token, atExpiry)
    \/ Tick
    \/ \E name \in Usernames, flag \in BOOLEAN : SetDisabled(name, flag)

SpecSession == Init /\ [][NextSession]_vars


(***************************************************************************)
(* Input values shared by the specifications below.                        *)
(***************************************************************************)
Alice == [username |-> "alice", email |-> "a@x", full_name |-> "N", password |-> "pw1"]
AliceLogin == [username |-> "alice", password |-> "pw1"]
EmployeeIds == {"E1", "E2"}
NoVals == [name |-> "", department |-> "", salary |-> 0, joining_date |-> <<>>,
           skills |-> <<>>]
NoUpdate == [fields |-> {}, nulls |-> {}, vals |-> NoVals]
SetName(n) == [fields |-> {"name"}, nulls |-> {}, vals |-> [NoVals EXCEPT !.name = n]]
Absent == [given |-> FALSE, value |-> ""]
Dept(d) == [given |-> TRUE, value |-> d]

ApiCreates ==
    [employee_id : EmployeeIds, name : {"Ann"}, department : {"Eng"},
     salary : {100}, joining_date : {D_2024_01_15}, skills : {<<"rust">>}]
ApiUpdates == {NoUpdate, SetName("Bob")}

(***************************************************************************)
(* Concurrent employee requests from an empty database: one account, two   *)
(* requests in flight, employees that differ in employee_id and name.      *)
(***************************************************************************)
ApiTokens == Presentable({})

Next ==
    \/ \E r \in Reqs : RegisterCheckUsername(r, Alice)
    \/ \E r \in Reqs : RegisterCheckEmail(r)
    \/ \E r \in Reqs : RegisterInsert(r, "s1")
    \/ \E r \in Reqs : RegisterFetch(r)
    \/ \E r \in Reqs : login_for_access_token(r, AliceLogin)
    \/ \E r \in Reqs, emp \in ApiCreates, token \in ApiTokens :
          BeginCreate(r, emp, token, TRUE)
    \/ \E r \in Reqs : CreateCheck(r)
    \/ \E r \in Reqs : CreateInsert(r)
    \/ \E r \in Reqs : CreateFetch(r)
    \/ \E r \in Reqs, id \in EmployeeIds, token \in ApiTokens :
          BeginGet(r, id, token, TRUE)
    \/ \E r \in Reqs : get_employee(r)
    \/ \E r \in Reqs, id \in EmployeeIds, upd \in ApiUpdates, token \in ApiTokens :
          BeginUpdate(r, id, upd, token, TRUE)
    \/ \E r \in Reqs : update_employee(r)
    \/ \E r \in Reqs, id \in EmployeeIds, token \in ApiTokens :
          BeginDelete(r, id, token, TRUE)
    \/ \E r \in Reqs : delete_employee(r)

Spec == Init /\ [][Next]_vars

(***************************************************************************)
(* Every protected endpoint behind the auth dependency: one client, every  *)
(* kind of token, time passing, the account disabled and enabled again.    *)
(***************************************************************************)
GuardTokens == Presentable({"alice"})

NextGuard ==
    \/ \E r \in Solo : RegisterCheckUsername(r, Alice)
    \/ \E r \in Solo : RegisterCheckEmail(r)
    \/ \E r \in Solo : RegisterInsert(r, "s1")
    \/ \E r \in Solo : RegisterFetch(r)
    \/ \E r \in Solo : login_for_access_token(r, AliceLogin)
    \/ \E r \in Solo, token \in GuardTokens, atExpiry \in BOOLEAN :
          read_users_me(r, token, atExpiry)
    \/ \E r \in Solo, emp \in ApiCreates, token \in GuardTokens, atExpiry \in BOOLEAN :
          BeginCreate(r, emp, token, atExpiry)
    \/ \E r \in Solo : CreateCheck(r)
    \/ \E r \in Solo : CreateInsert(r)
    \/ \E r \in Solo : CreateFetch(r)
    \/ \E r \in Solo, id \in EmployeeIds, token \in GuardTokens, atExpiry \in BOOLEAN :
          BeginGet(r, id, token, atExpiry)
    \/ \E r \in Solo : get_employee(r)
    \/ \E r \in Solo, id \in EmployeeIds, upd \in ApiUpdates, token \in GuardTokens,
          atExpiry \in BOOLEAN : BeginUpdate(r, id, upd, token, atExpiry)
    \/ \E r \in Solo : update_employee(r)
    \/ \E r \in Solo, id \in EmployeeIds, token \in GuardTokens, atExpiry \in BOOLEAN :
          BeginDelete(r, id, token, atExpiry)
    \/ \E r \in Solo : delete_employee(r)
    \/ \E r \in Solo, token \in GuardTokens, atExpiry \in BOOLEAN :
          BeginList(r, Absent, 1, 1, token, atExpiry)
    \/ \E r \in Solo : list_employees(r)
    \/ \E r \in Solo, token \in GuardTokens, atExpiry \in BOOLEAN :
          BeginSearch(r, "rust", token, atExpiry)
    \/ \E r \in Solo : search_by_skill(r)
    \/ \E r \in Solo, token \in GuardTokens, atExpiry \in BOOLEAN :
          BeginAvg(r, token, atExpiry)
    \/ \E r \in Solo : avg_salary_by_department(r)
    \/ Tick
    \/ \E flag \in BOOLEAN : SetDisabled("alice", flag)

SpecGuard == Init /\ [][NextGuard]_vars


(***************************************************************************)
(* Field values: one client creating and updating employees with every     *)
(* kind of field value the request models let through or refuse.           *)
(***************************************************************************)
Upd(fields, nulls, vals) == [fields |-> fields, nulls |-> nulls, vals |-> vals]
FieldCreates ==
    [employee_id : EmployeeIds, name : {"Ann"}, department : {"Eng"},
     salary : {100},
     joining_date : {D_2024_01_15, D_2024_13_01, D_2024_1_5, D_Empty},
     skills : {<<"rust">>}]
FieldUpdates ==
    {NoUpdate,
     Upd({"salary"}, {}, [NoVals EXCEPT !.salary = 5000]),
     Upd({"salary"}, {"salary"}, NoVals),
     Upd({"name", "skills"}, {"name"}, [NoVals EXCEPT !.skills = <<"go">>]),
     Upd({"name", "department"}, {},
         [NoVals EXCEPT !.name = "Bob", !.department = "Sales"]),
     Upd({"skills"}, {}, NoVals),
     Upd({"joining_date"}, {"joining_date"}, NoVals)}
    \cup {Upd({"joining_date"}, {}, [NoVals EXCEPT !.joining_date = d]) :
            d \in {D_2023_06_30, D_2024_13_01, D_2024_1_5, D_Empty}}
FieldTokens == Presentable({})

NextFields ==
    \/ \E r \in Solo : RegisterCheckUsername(r, Alice)
    \/ \E r \in Solo : RegisterCheckEmail(r)
    \/ \E r \in Solo : RegisterInsert(r, "s1")
    \/ \E r \in Solo : RegisterFetch(r)
    \/ \E r \in Solo : login_for_access_token(r, AliceLogin)
    \/ \E r \in Solo, emp \in FieldCreates, token \in FieldTokens :
          BeginCreate(r, emp, token, TRUE)
    \/ \E r \in Solo : CreateCheck(r)
    \/ \E r \in Solo : CreateInsert(r)
    \/ \E r \in Solo : CreateFetch(r)
    \/ \E r \in Solo, id \in EmployeeIds, upd \in FieldUpdates, token \in FieldTokens :
          BeginUpdate(r, id, upd, token, TRUE)
    \/ \E r \in Solo : update_employee(r)
    \/ \E r \in Solo, id \in EmployeeIds, token \in FieldTokens :
          BeginGet(r, id, token, TRUE)
    \/ \E r \in Solo : get_employee(r)

SpecFields == Init /\ [][NextFields]_vars

(***************************************************************************)
(* Queries over a populated collection.  The collection is any set of up   *)
(* to three valid employees with distinct employee_id; alice is registered *)
(* and holds a token.                                                      *)
(***************************************************************************)
AliceDoc ==
    [_id |-> 1, username |-> "alice", email |-> "a@x", full_name |-> "N",
     hashed_password |-> get_password_hash("pw1", "s1"), disabled |-> FALSE]
AliceToken == create_access_token("alice", 0, ACCESS_TOKEN_EXPIRE_MINUTES)

QueryDoc(n, id) ==
    {[_id |-> n, employee_id |-> id, name |-> "Ann", department |-> d,
      salary |-> sal, joining_date |-> jd,
      skills |-> IF id = "E1" THEN <<"rust">> ELSE <<>>, nulls |-> {}] :
        d \in {"Eng", "Sales"}, sal \in {100, 101},
        jd \in {D_2024_01_15, D_2023_06_30}}
QueryStores ==
    {{}} \cup {{a} : a \in QueryDoc(2, "E1")}
         \cup {{a, b} : a \in QueryDoc(2, "E1"), b \in QueryDoc(3, "E2")}
         \cup {{a, b, c} : a \in QueryDoc(2, "E1"), b \in QueryDoc(3, "E2"),
                           c \in QueryDoc(4, "E3")}
QueryDepartments == {Absent, Dept("Eng"), Dept("")}
QueryPages == {0, 1, 2}
QuerySizes == {-1, 0, 1, 2}
QueryTokens == {NoToken, AliceToken}

InitQuery ==
    /\ users = {AliceDoc}
    /\ employees \in QueryStores
    /\ nextOid = 5
    /\ clock = 0
    /\ issued = {AliceToken}
    /\ req = [r \in Reqs |-> IdleReq]

NextQuery ==
    \/ \E r \in Solo, department \in QueryDepartments, page \in QueryPages,
          size \in QuerySizes, token \in QueryTokens :
          BeginList(r, department, page, size, token, TRUE)
    \/ \E r \in Solo : list_employees(r)
    \/ \E r \in Solo, token \in QueryTokens : BeginSearch(r, "rust", token, TRUE)
    \/ \E r \in Solo : search_by_skill(r)
    \/ \E r \in Solo, token \in QueryTokens : BeginAvg(r, token, TRUE)
    \/ \E r \in Solo : avg_salary_by_department(r)

SpecQuery == InitQuery /\ [][NextQuery]_vars


(***************************************************************************)
(*                              Claims                                     *)
(***************************************************************************)
StepOf(r) == req'[r] # req[r]
Completes(r, pc) == req[r].pc = pc /\ req'[r].pc = "done"

C3_EmployeeIdUnique ==
    \A a, b \in employees : a.employee_id = b.employee_id => a = b

\* C3 witness: two creates with the same employee_id both passed the
\* existence check; the second insert was refused by the unique index.
C3_Witness ==
    \E r \in Reqs :
        /\ req[r].op = "create" /\ req[r].pc = "done"
        /\ req[r].result = Resp(500, "DuplicateKeyError")
        /\ HasEmployee(req[r].arg.employee_id)

\* C4 (as claimed): every create that got past authentication and request
\* validation ends either with Conflict (HTTP 400) or with 201 and the stored
\* record, i.e. the submitted fields plus the generated id.
C4_CreateEndsInConflictOrCreated ==
    \A r \in Reqs :
        (req[r].op = "create" /\ req[r].pc = "done"
         /\ req[r].result.status \notin {401, 422})
        => \/ req[r].result.status = 400
           \/ /\ req[r].result.status = 201
              /\ \A f \in {"employee_id", "name", "department", "salary",
                           "joining_date", "skills"} :
                     req[r].result.body[f] = req[r].arg[f]

\* C8: delete(employee_id) of a stored record removes that record and no
\* other and answers 200; get and delete of an absent employee_id answer 404
\* and change nothing; get answers 404 exactly when no record has the
\* employee_id, and an employee_id comes (back) into the collection only by
\* the insert of a create.
C8_DeleteAndGet ==
    [][/\ \A r \in Reqs :
            Completes(r, "delete") =>
               LET id == req[r].arg IN
               IF \E e \in employees : e.employee_id = id
               THEN /\ req'[r].result.status = 200
                    /\ employees' = {e \in employees : e.employee_id # id}
                    /\ Cardinality(employees') = Cardinality(employees) - 1
               ELSE /\ req'[r].result.status = 404
                    /\ employees' = employees
       /\ \A r \in Reqs :
            Completes(r, "get") =>
               /\ employees' = employees
               /\ (req'[r].result.status = 404)
                     <=> ~\E e \in employees : e.employee_id = req[r].arg
               /\ req'[r].result.status \in {200, 404}
       /\ \A id \in EmployeeIds :
            ((~\E e \in employees : e.employee_id = id)
             /\ (\E e \in employees' : e.employee_id = id))
            => \E r \in Reqs : /\ req[r].pc = "create_insert"
                               /\ req'[r].pc = "create_fetch"
                               /\ req[r].arg.employee_id = id]_vars

\* C8 witness: E1 was deleted (200) while E2 stayed, and a later get of E1
\* was answered 404.
C8_Witness ==
    \E r, q \in Reqs :
        /\ req[r].op = "delete" /\ req[r].pc = "done"
        /\ req[r].result.status = 200
        /\ req[q].op = "get" /\ req[q].pc = "done"
        /\ req[q].arg = req[r].arg
        /\ req[q].result.status = 404
        /\ employees # {}


ClaimTimes == 0..(MaxTime + ACCESS_TOKEN_EXPIRE_MINUTES + 1)

\* C2: a login with a stored username and its password is answered with a
\* token that verify resolves to that username at every time before issue
\* time + TTL and refuses at every time after it; a login with an unknown
\* username or a wrong password is answered 401 and issues no token.  And a
\* token presented to GET /auth/me is treated accordingly as time passes.
C2_LoginTokenLifetime ==
    [][/\ \A r \in Reqs :
            (StepOf(r) /\ req'[r].op = "login") =>
               LET cred == req'[r].arg
                   res == req'[r].result
                   match == \E u \in users :
                               /\ u.username = cred.username
                               /\ u.hashed_password.digest
                                    = <<"H", u.hashed_password.salt, cred.password>>
               IN IF match
                  THEN /\ res.status = 200
                       /\ issued' = issued \cup {res.body.access_token}
                       /\ \A t \in ClaimTimes, b \in BOOLEAN :
                            /\ t < clock + ACCESS_TOKEN_EXPIRE_MINUTES
                                 => verify(res.body.access_token, t, b) = cred.username
                            /\ t > clock + ACCESS_TOKEN_EXPIRE_MINUTES
                                 => verify(res.body.access_token, t, b) = "Invalid"
                  ELSE /\ res.status = 401
                       /\ issued' = issued
       /\ \A r \in Reqs :
            (StepOf(r) /\ req'[r].op = "me" /\ req'[r].arg \in issued) =>
               LET token == req'[r].arg IN
               /\ (clock < token.exp /\ \E u \in users : u.username = token.sub
                                                         /\ ~u.disabled)
                    => /\ req'[r].result.status = 200
                       /\ req'[r].result.body.username = token.sub
               /\ clock > token.exp => req'[r].result.status = 401]_vars

\* C2 witness: a token issued to a stored, enabled user was presented after
\* its expiry and refused.
C2_Witness ==
    \E r \in Reqs :
        /\ req[r].op = "me" /\ req[r].pc = "done"
        /\ req[r].arg \in issued
        /\ clock > req[r].arg.exp
        /\ req[r].result.status = 401
        /\ \E u \in users : u.username = req[r].arg.sub /\ ~u.disabled

\* The records at positions lo..hi (counted from 1) of the sequence s.
Positions(s, lo, hi) ==
    LET from == IF lo < 1 THEN 1 ELSE lo
        to == IF hi > Len(s) THEN Len(s) ELSE hi
    IN IF from > to THEN <<>> ELSE SubSeq(s, from, to)

Views(s) == [i \in 1..Len(s) |->
               [id |-> <<"ObjectId", s[i]._id>>, employee_id |-> s[i].employee_id,
                name |-> s[i].name, department |-> s[i].department,
                salary |-> s[i].salary, joining_date |-> s[i].joining_date,
                skills |-> s[i].skills]]

\* C7 (as claimed): for every department filter, page and size, list returns
\* exactly the records at positions (page-1)*size+1 .. page*size of the
\* employees matching the filter (all of them when no department is given),
\* sorted by joining_date descending.
C7_ListEveryPageAndSize ==
    \A r \in Reqs :
        (req[r].op = "list" /\ req[r].pc = "done" /\ req[r].authOk) =>
           LET a == req[r].arg
               matching == IF a.department.given
                           THEN {e \in employees : e.department = a.department.value}
                           ELSE employees
           IN /\ req[r].result.status = 200
              /\ \E s \in SortedDesc(matching) :
                    req[r].result.body
                      = Views(Positions(s, (a.page - 1) * a.size + 1, a.page * a.size))

\* C7 (amended): for page >= 1 and size >= 1 (both, and their product,
\* within the store's 64-bit integers, as every number here is), list
\* returns exactly the records at positions (page-1)*size+1 .. page*size of
\* the employees matching the department filter, an absent or empty
\* department selecting all employees, sorted by joining_date descending
\* (the order among equal joining_dates being the store's).
C7_ListPositivePageAndSize ==
    \A r \in Reqs :
        (req[r].op = "list" /\ req[r].pc = "done" /\ req[r].authOk
         /\ req[r].arg.page >= 1 /\ req[r].arg.size >= 1) =>
           LET a == req[r].arg
               matching == IF a.department.given /\ a.department.value # ""
                           THEN {e \in employees : e.department = a.department.value}
                           ELSE employees
           IN /\ req[r].result.status = 200
              /\ \E s \in SortedDesc(matching) :
                    req[r].result.body
                      = Views(Positions(s, (a.page - 1) * a.size + 1, a.page * a.size))

\* C7 witness: page 2 of size 1 of the Eng employees, of which there are at
\* least two with different joining dates, returned the older one.
C7_Witness ==
    \E r \in Reqs :
        /\ req[r].op = "list" /\ req[r].pc = "done" /\ req[r].authOk
        /\ req[r].arg = [department |-> Dept("Eng"), page |-> 2, size |-> 1]
        /\ Cardinality(employees) = 3
        /\ Len(req[r].result.body) = 1
        /\ req[r].result.body[1].joining_date = D_2023_06_30
        /\ \E e \in employees : e.department = "Eng" /\ e.joining_date = D_2024_01_15

RECURSIVE ClaimSum(_)
ClaimSum(S) ==
    IF S = {} THEN 0
    ELSE LET e == CHOOSE x \in S : TRUE IN e.salary + ClaimSum(S \ {e})

\* C10: averageSalaryByDepartment returns exactly one row per distinct
\* department of the stored records, and each row's avg_salary is an integer
\* nearest to the mean of that department's salaries.
C10_AverageSalaryByDepartment ==
    \A r \in Reqs :
        (req[r].op = "avg" /\ req[r].pc = "done" /\ req[r].authOk) =>
           LET rows == req[r].result.body.data IN
           /\ req[r].result.status = 200
           /\ \A d \in {e.department : e \in employees} :
                 Cardinality({row \in rows : row.department = d}) = 1
           /\ \A row \in rows :
                 LET G == {e \in employees : e.department = row.department}
                     n == Cardinality(G)
                     diff == row.avg_salary * n - ClaimSum(G)
                 IN /\ n > 0
                    /\ 2 * diff <= n
                    /\ -2 * diff <= n

\* C10 witness: three Eng employees earning 100, 101 and 101 (mean 100.67)
\* were reported as Eng 101.
C10_Witness ==
    \E r \in Reqs :
        /\ req[r].op = "avg" /\ req[r].pc = "done" /\ req[r].authOk
        /\ Cardinality({e \in employees : e.department = "Eng"}) = 3
        /\ ClaimSum(employees) = 302
        /\ [department |-> "Eng", avg_salary |-> 101] \in req[r].result.body.data


UpdatableFields == {"name", "department", "salary", "joining_date", "skills"}

\* The document new is the document old with exactly the fields supplied by
\* upd set to the supplied values (a supplied null making the field null)
\* and every other field, _id and employee_id included, as it was.
SetsExactlySupplied(old, new, upd) ==
    /\ new._id = old._id
    /\ new.employee_id = old.employee_id
    /\ \A f \in UpdatableFields :
          IF f \in upd.fields /\ f \notin upd.nulls
          THEN new[f] = upd.vals[f] /\ f \notin new.nulls
          ELSE IF f \in upd.nulls
          THEN f \in new.nulls
          ELSE new[f] = old[f] /\ f \notin new.nulls

\* The update supplies no joining_date, a null one, or a real date.
SuppliedDateIsReal(upd) ==
    \/ "joining_date" \notin upd.fields
    \/ "joining_date" \in upd.nulls
    \/ IsRealDate(upd.vals.joining_date)

\* C6 (as claimed): an update with at least one supplied field on a stored
\* record sets exactly the supplied fields and leaves every other field and
\* every other record as it was; with no field supplied it is answered 400
\* and with no matching record 404, the collection unchanged in both cases.
\* (Updates supplying an invalid joining_date are the subject of C9 and are
\* left out here.)
C6_UpdateSetsExactlySuppliedFields ==
    [][\A r \in Reqs :
         (Completes(r, "update") /\ SuppliedDateIsReal(req[r].arg.upd)) =>
            LET id == req[r].arg.employee_id
                upd == req[r].arg.upd
            IN IF upd.fields = {}
               THEN req'[r].result.status = 400 /\ employees' = employees
               ELSE IF ~\E e \in employees : e.employee_id = id
               THEN req'[r].result.status = 404 /\ employees' = employees
               ELSE /\ req'[r].result.status = 200
                    /\ \E old \in employees, new \in employees' :
                          /\ old.employee_id = id
                          /\ SetsExactlySupplied(old, new, upd)
                          /\ employees' = (employees \ {old}) \cup {new}]_vars

\* C9 (as claimed): a create or update whose joining_date is not a real
\* YYYY-MM-DD date is rejected before the handler reaches the store, and
\* every stored joining_date matches the pattern.
C9_InvalidDateNeverReachesStorage ==
    /\ \A r \in Reqs :
          (req[r].op = "create" /\ req[r].authOk
           /\ ~IsRealDate(req[r].arg.joining_date))
          => req[r].pc = "done" /\ req[r].result.status \in {400, 422}
    /\ \A r \in Reqs :
          (req[r].op = "update" /\ req[r].authOk
           /\ "joining_date" \in req[r].arg.upd.fields
           /\ "joining_date" \notin req[r].arg.upd.nulls
           /\ ~IsRealDate(req[r].arg.upd.vals.joining_date))
          => req[r].pc = "done" /\ req[r].result.status \in {400, 422}
    /\ \A e \in employees : DateReMatch(e.joining_date)

====
